---- MODULE Spec2Model ----
(***************************************************************************)
(* IELTS Writing Co-pilot: the App component's state and event handlers    *)
(* (src/App.tsx), the analyzeIeltsWriting service call                     *)
(* (src/services/geminiService.ts) and the result renderer (src/App.tsx).  *)
(*                                                                         *)
(* JavaScript strings that the code inspects character by character (the   *)
(* essay text, the data URL, the response text) are sequences of           *)
(* one-character strings; strings the code only stores, compares with ''   *)
(* or interpolates whole (topic, task type, messages, prompt literals) are *)
(* TLA+ strings.  The prompt text is the sequence of its pieces.           *)
(***************************************************************************)
EXTENDS Integers, Sequences, FiniteSets, TLC

VARIABLES
    taskType,              \* App.tsx:9
    topic,                 \* App.tsx:10
    questionImageFile,     \* App.tsx:13
    questionImagePreview,  \* App.tsx:14
    essayInputMode,        \* App.tsx:17
    userWriting,           \* App.tsx:18
    essayImageFile,        \* App.tsx:19
    essayImagePreview,     \* App.tsx:20
    result,                \* App.tsx:22
    isLoading,             \* App.tsx:23
    error,                 \* App.tsx:24
    questionReads,         \* files being read by the FileReaders of App.tsx:39-43
    essayReads,            \* files being read by the FileReaders of App.tsx:62-66
    calls,                 \* the pending analyzeIeltsWriting calls, each with its position
    view                   \* what the last render of App put on screen

vars == <<taskType, topic, questionImageFile, questionImagePreview, essayInputMode,
          userWriting, essayImageFile, essayImagePreview, result, isLoading, error,
          questionReads, essayReads, calls, view>>

uiInputs == <<taskType, topic, questionImageFile, questionImagePreview, essayInputMode,
              userWriting, essayImageFile, essayImagePreview, questionReads, essayReads>>

----------------------------------------------------------------------------
(* Bounds of the model *)

MaxCalls == 2          \* pending analyzeIeltsWriting calls the model tracks
MaxPendingReads == 1   \* preview FileReaders pending at once
MaxEssayLen == 3       \* length of the essay text in the service specification
MaxResultLen == 5      \* length of the response text in the renderer specification

----------------------------------------------------------------------------
(* Values *)

TaskTypes == {"Task 1", "Task 2"}
EssayInputModes == {"text", "image"}
Topics == {"", "The chart shows..."}

NoFile == "null"
NoError == "null"
NoPreview == <<>>      \* null: only the truthiness of a preview is ever read

Files == {"chart.png", "essay.jpg", "huge.png"}

MaxImageBytes == 4 * 1024 * 1024

FileSize(f) ==
    CASE f = "chart.png" -> MaxImageBytes
      [] f = "essay.jpg" -> 1024
      [] f = "huge.png"  -> MaxImageBytes + 1

FileType(f) ==
    CASE f = "chart.png" -> "image/png"
      [] f = "essay.jpg" -> "image/jpeg"
      [] f = "huge.png"  -> "image/png"

\* the base64 encoding of the file's bytes
FileBase64(f) ==
    CASE f = "chart.png" -> <<"i", "V">>
      [] f = "essay.jpg" -> <<"/", "9">>
      [] f = "huge.png"  -> <<"i", "W">>

SizeErrorMsg == "Image size should not exceed 4MB."
TopicErrorMsg == "Please provide a topic for your writing task."
ServiceErrorMsg == "Failed to get a response from the AI. Please check your API key and network connection."
ErrorPrefix == "An error occurred: "
\* App.tsx:103 with the Error of geminiService.ts:123
AnalysisErrorMsg == ErrorPrefix \o ServiceErrorMsg

EssayChars == {" ", "\n", "a"}
ResultChars == {"#", " ", "*", "-", "\n", "a"}

SeqsUpTo(S, n) == UNION {[1..k -> S] : k \in 0..n}

\* the essay texts typed in the UI specification: none, blank, and one to trim
TypedTexts == {<<>>, <<" ">>, <<" ", "a">>}
EssayTexts == SeqsUpTo(EssayChars, MaxEssayLen)
Responses == {<<>>, <<"a">>}
RenderTexts == SeqsUpTo(ResultChars, MaxResultLen)

----------------------------------------------------------------------------
(* String functions of JavaScript, on sequences of characters *)

StartsWith(s, p) == Len(p) <= Len(s) /\ SubSeq(s, 1, Len(p)) = p

\* s.substring(n)
Substring(s, n) == SubSeq(s, n + 1, Len(s))

\* s.split(sep), sep not empty: cut at the occurrences of sep found left to right,
\* each search resuming after the previous occurrence
RECURSIVE SplitFrom(_, _, _)
SplitFrom(s, sep, piece) ==
    IF s = <<>> THEN <<piece>>
    ELSE IF StartsWith(s, sep) THEN <<piece>> \o SplitFrom(Substring(s, Len(sep)), sep, <<>>)
    ELSE SplitFrom(Tail(s), sep, Append(piece, Head(s)))

Split(s, sep) == SplitFrom(s, sep, <<>>)

\* s.replace(/pat/g, ''), pat a literal
RECURSIVE RemoveAll(_, _)
RemoveAll(s, pat) ==
    IF s = <<>> THEN <<>>
    ELSE IF StartsWith(s, pat) THEN RemoveAll(Substring(s, Len(pat)), pat)
    ELSE <<Head(s)>> \o RemoveAll(Tail(s), pat)

IsWhiteSpace(c) == c \in {" ", "\n", "\t", "\r"}

RECURSIVE TrimStart(_)
TrimStart(s) ==
    IF s # <<>> /\ IsWhiteSpace(Head(s)) THEN TrimStart(Tail(s)) ELSE s

RECURSIVE TrimEnd(_)
TrimEnd(s) ==
    IF s # <<>> /\ IsWhiteSpace(s[Len(s)]) THEN TrimEnd(SubSeq(s, 1, Len(s) - 1)) ELSE s

\* s.trim()
Trim(s) == TrimEnd(TrimStart(s))

----------------------------------------------------------------------------
(* FileReader *)

\* reader.result after readAsDataURL(file) succeeded
DataURL(f) == <<"data:", FileType(f), ";base64", ",">> \o FileBase64(f)

----------------------------------------------------------------------------
(* The result renderer, App.tsx:277-293 *)

H3Marker == <<"#", "#", "#", " ">>
H4Marker == <<"#", "#", "#", "#", " ">>
BoldMarker == <<"*", "*">>
ListMarker == <<"-", " ">>
RuleMarker == <<"-", "-", "-">>
LineBreak == <<"\n">>

\* s.replace('**', ''): only the first occurrence
RemoveFirst(s, pat) ==
    IF \E k \in 1..Len(s) : StartsWith(Substring(s, k - 1), pat)
    THEN LET k == CHOOSE k \in 1..Len(s) :
                      /\ StartsWith(Substring(s, k - 1), pat)
                      /\ \A m \in 1..(k - 1) : ~StartsWith(Substring(s, m - 1), pat)
         IN  SubSeq(s, 1, k - 1) \o Substring(s, k - 1 + Len(pat))
    ELSE s

\* the classification with only the first bold marker stripped
ClassifyLine_FirstBoldOnly(line) ==
    IF StartsWith(line, H3Marker) THEN [tag |-> "h3", text |-> Substring(line, 4)]
    ELSE IF StartsWith(line, H4Marker) THEN [tag |-> "h4", text |-> Substring(line, 5)]
    ELSE IF StartsWith(line, BoldMarker) THEN [tag |-> "strong", text |-> RemoveFirst(line, BoldMarker)]
    ELSE IF StartsWith(line, ListMarker) THEN [tag |-> "li", text |-> Substring(line, 2)]
    ELSE IF Trim(line) = <<>> THEN [tag |-> "br", text |-> <<>>]
    ELSE [tag |-> "p", text |-> line]

\* the element one line of a section is rendered as
ClassifyLine(line) ==
    IF StartsWith(line, H3Marker) THEN [tag |-> "h3", text |-> Substring(line, 4)]
    ELSE IF StartsWith(line, H4Marker) THEN [tag |-> "h4", text |-> Substring(line, 5)]
    ELSE IF StartsWith(line, BoldMarker) THEN [tag |-> "strong", text |-> RemoveAll(line, BoldMarker)]
    ELSE IF StartsWith(line, ListMarker) THEN [tag |-> "li", text |-> Substring(line, 2)]
    ELSE IF Trim(line) = <<>> THEN [tag |-> "br", text |-> <<>>]
    ELSE [tag |-> "p", text |-> line]

\* result.split('---')
ResultSections(r) == Split(r, RuleMarker)

\* section.split('\n')
SectionLines(section) == Split(section, LineBreak)

\* the <div> of one section: its lines' elements, and the <hr> after all but the last
RenderSection(sections, i) ==
    LET lines == SectionLines(sections[i])
    IN  [children |-> [j \in 1..Len(lines) |-> ClassifyLine(lines[j])],
         hr |-> (i - 1 < Len(sections) - 1)]

RenderResult(r) ==
    LET sections == ResultSections(r)
    IN  [i \in 1..Len(sections) |-> RenderSection(sections, i)]

\* what App renders of isLoading, result and error
AppView(l, r, e) ==
    [errorText   |-> e,                                         \* App.tsx:255
     loading     |-> l,                                         \* App.tsx:261
     placeholder |-> (~l /\ r = <<>> /\ e = NoError),           \* App.tsx:268
     sections    |-> IF r # <<>> THEN RenderResult(r) ELSE <<>>] \* App.tsx:277

\* React renders again after every state change
Rerender == view' = AppView(isLoading', result', error')

----------------------------------------------------------------------------
(* analyzeIeltsWriting, geminiService.ts:69-125 *)

PromptHeader(tt, tp) == <<"User Request:\nTask Type: ", tt, "\nTopic: ", tp, "\n">>
QuestionImageNote == "\n[Image 1] attached is the Task 1 Question Reference (Chart/Graph)."
EssayImageNote == " attached is the User's Handwritten Essay. Please transcribe this image internally and analyze the essay content contained within it."
EssayTextOpen == "\nUser's Essay Text:\n---\n"
EssayTextClose == "\n---"
NoEssayNote == "\nUser's Essay: [NO ESSAY PROVIDED]"
PromptClosing == "\nPlease provide the analysis and/or model answers as instructed in your system prompt."

\* the part fileToGenerativePart resolves to when the read succeeded
GenerativePart(f) ==
    [inlineData |-> [data |-> Split(DataURL(f), <<",">>)[2], mimeType |-> FileType(f)]]

TextPart(text) == [text |-> text]

\* a label that does not look at the reference image
EssayImageLabel_Fixed(qFile) == "[Image 1]"

\* geminiService.ts:96
EssayImageLabel(qFile) == IF qFile # NoFile THEN "[Image 2]" ELSE "[Image 1]"

\* the emptiness test without the trim
HasEssayText_Untrimmed(w) == w # <<>>

\* geminiService.ts:98
HasEssayText(w) == w # <<>> /\ Len(Trim(w)) > 0

\* lines 104-109: the closing sentence, the text part, and the remote call begins
SendRequest(c) ==
    LET text == Append(c.userPromptText, PromptClosing)
    IN  [c EXCEPT !.userPromptText = text,
                  !.parts = Append(c.parts, TextPart(text)),
                  !.pc = "generateContent"]

\* lines 93-102, up to the next await
EssayStep(c) ==
    IF c.essayImageFile # NoFile
    THEN [c EXCEPT !.pc = "readEssayImage"]
    ELSE IF HasEssayText(c.userWriting)
    THEN SendRequest([c EXCEPT !.userPromptText =
             Append(c.userPromptText, EssayTextOpen) \o Trim(c.userWriting) \o <<EssayTextClose>>])
    ELSE SendRequest([c EXCEPT !.userPromptText = Append(c.userPromptText, NoEssayNote)])

\* lines 76-87, up to the first await
StartCall(tt, tp, w, qFile, eFile) ==
    LET c == [pc |-> "start", taskType |-> tt, topic |-> tp, userWriting |-> w,
              questionImageFile |-> qFile, essayImageFile |-> eFile,
              parts |-> <<>>, userPromptText |-> PromptHeader(tt, tp)]
    IN  IF qFile # NoFile THEN [c EXCEPT !.pc = "readQuestionImage"] ELSE EssayStep(c)

\* lines 87-90 after the await, then on to the essay
QuestionImageEncoded(c) ==
    EssayStep([c EXCEPT !.parts = Append(c.parts, GenerativePart(c.questionImageFile)),
                        !.userPromptText = Append(c.userPromptText, QuestionImageNote)])

\* lines 94-97 after the await, then the request
EssayImageEncoded(c) ==
    SendRequest([c EXCEPT !.parts = Append(c.parts, GenerativePart(c.essayImageFile)),
                          !.userPromptText = c.userPromptText
                              \o <<"\n", EssayImageLabel(c.questionImageFile), EssayImageNote>>])

RemoveAt(s, i) == SubSeq(s, 1, i - 1) \o SubSeq(s, i + 1, Len(s))

----------------------------------------------------------------------------
(* The state after construction, App.tsx:9-24 *)

Init ==
    /\ taskType = "Task 2"
    /\ topic = ""
    /\ questionImageFile = NoFile
    /\ questionImagePreview = NoPreview
    /\ essayInputMode = "text"
    /\ userWriting = <<>>
    /\ essayImageFile = NoFile
    /\ essayImagePreview = NoPreview
    /\ result = <<>>
    /\ isLoading = FALSE
    /\ error = NoError
    /\ questionReads = {}
    /\ essayReads = {}
    /\ calls = <<>>
    /\ view = AppView(FALSE, <<>>, NoError)

----------------------------------------------------------------------------
(* The user's events.  An event reaches its handler only while the element  *)
(* it belongs to is rendered (and, for the button, enabled).                *)

\* App.tsx:139-148
SetTaskType(t) ==
    /\ taskType' = t
    /\ UNCHANGED <<topic, questionImageFile, questionImagePreview, essayInputMode,
                   userWriting, essayImageFile, essayImagePreview, result, isLoading,
                   error, questionReads, essayReads, calls>>
    /\ Rerender

\* App.tsx:156-163
SetTopic(s) ==
    /\ topic' = s
    /\ UNCHANGED <<taskType, questionImageFile, questionImagePreview, essayInputMode,
                   userWriting, essayImageFile, essayImagePreview, result, isLoading,
                   error, questionReads, essayReads, calls>>
    /\ Rerender

\* App.tsx:195-206
SetEssayInputMode(m) ==
    /\ essayInputMode' = m
    /\ UNCHANGED <<taskType, topic, questionImageFile, questionImagePreview,
                   userWriting, essayImageFile, essayImagePreview, result, isLoading,
                   error, questionReads, essayReads, calls>>
    /\ Rerender

\* App.tsx:215-222, rendered in text mode
SetUserWriting(w) ==
    /\ essayInputMode = "text"
    /\ userWriting' = w
    /\ UNCHANGED <<taskType, topic, questionImageFile, questionImagePreview, essayInputMode,
                   essayImageFile, essayImagePreview, result, isLoading,
                   error, questionReads, essayReads, calls>>
    /\ Rerender

PendingReads == Cardinality(questionReads) + Cardinality(essayReads)

\* App.tsx:31-46; the input is rendered for Task 1 while there is no preview (166-184)
handleQuestionImageChange(file) ==
    /\ taskType = "Task 1"
    /\ questionImagePreview = NoPreview
    /\ IF FileSize(file) > MaxImageBytes
       THEN /\ error' = SizeErrorMsg
            /\ UNCHANGED <<questionImageFile, questionReads>>
       ELSE /\ PendingReads < MaxPendingReads \/ file \in questionReads
            /\ questionImageFile' = file
            /\ questionReads' = questionReads \cup {file}
            /\ error' = NoError
    /\ UNCHANGED <<taskType, topic, questionImagePreview, essayInputMode, userWriting,
                   essayImageFile, essayImagePreview, result, isLoading, essayReads, calls>>
    /\ Rerender

\* App.tsx:40-42: a preview read ends; reader.result is null when it failed
QuestionPreviewLoadEnd(file, ok) ==
    /\ file \in questionReads
    /\ questionReads' = questionReads \ {file}
    /\ questionImagePreview' = IF ok THEN DataURL(file) ELSE NoPreview
    /\ UNCHANGED <<taskType, topic, questionImageFile, essayInputMode, userWriting,
                   essayImageFile, essayImagePreview, result, isLoading, error,
                   essayReads, calls>>
    /\ Rerender

\* App.tsx:48-51; the button is rendered for Task 1 over the preview (169-175)
removeQuestionImage ==
    /\ taskType = "Task 1"
    /\ questionImagePreview # NoPreview
    /\ questionImageFile' = NoFile
    /\ questionImagePreview' = NoPreview
    /\ UNCHANGED <<taskType, topic, essayInputMode, userWriting,
                   essayImageFile, essayImagePreview, result, isLoading, error,
                   questionReads, essayReads, calls>>
    /\ Rerender

\* App.tsx:54-69; the input is rendered in image mode while there is no preview (226-241)
handleEssayImageChange(file) ==
    /\ essayInputMode = "image"
    /\ essayImagePreview = NoPreview
    /\ IF FileSize(file) > MaxImageBytes
       THEN /\ error' = SizeErrorMsg
            /\ UNCHANGED <<essayImageFile, essayReads>>
       ELSE /\ PendingReads < MaxPendingReads \/ file \in essayReads
            /\ essayImageFile' = file
            /\ essayReads' = essayReads \cup {file}
            /\ error' = NoError
    /\ UNCHANGED <<taskType, topic, questionImageFile, questionImagePreview, essayInputMode,
                   userWriting, essayImagePreview, result, isLoading, questionReads, calls>>
    /\ Rerender

\* App.tsx:63-65
EssayPreviewLoadEnd(file, ok) ==
    /\ file \in essayReads
    /\ essayReads' = essayReads \ {file}
    /\ essayImagePreview' = IF ok THEN DataURL(file) ELSE NoPreview
    /\ UNCHANGED <<taskType, topic, questionImageFile, questionImagePreview, essayInputMode,
                   userWriting, essayImageFile, result, isLoading, error,
                   questionReads, calls>>
    /\ Rerender

\* App.tsx:71-74; the button is rendered in image mode over the preview (227-232)
removeEssayImage ==
    /\ essayInputMode = "image"
    /\ essayImagePreview # NoPreview
    /\ essayImageFile' = NoFile
    /\ essayImagePreview' = NoPreview
    /\ UNCHANGED <<taskType, topic, questionImageFile, questionImagePreview, essayInputMode,
                   userWriting, result, isLoading, error,
                   questionReads, essayReads, calls>>
    /\ Rerender

----------------------------------------------------------------------------
(* Submission *)

\* a button that is not disabled while loading
isSubmitDisabled_TopicOnly == topic = ""

\* App.tsx:112
isSubmitDisabled == isLoading \/ topic = ""

\* a submission that keeps the previous result
ResultOnSubmit_Stale(r) == r

\* App.tsx:84, setResult('')
ResultOnSubmit(r) == <<>>

\* App.tsx:89-90
finalUserWriting == IF essayInputMode = "text" THEN userWriting ELSE <<>>
finalEssayImage == IF essayInputMode = "image" THEN essayImageFile ELSE NoFile

\* App.tsx:76-99, up to the first await of analyzeIeltsWriting
handleSubmit ==
    IF topic = ""
    THEN /\ error' = TopicErrorMsg
         /\ UNCHANGED <<result, isLoading, calls>>
    ELSE /\ isLoading' = TRUE
         /\ error' = NoError
         /\ result' = ResultOnSubmit(result)
         /\ calls' = Append(calls, StartCall(taskType, topic, finalUserWriting,
                                             questionImageFile, finalEssayImage))

\* App.tsx:247-250: a click on the button while it is enabled
ClickSubmit ==
    /\ ~isSubmitDisabled
    /\ Len(calls) < MaxCalls
    /\ handleSubmit
    /\ UNCHANGED uiInputs
    /\ Rerender

\* geminiService.ts:58-67 and 86-97: the FileReader of call i ends.  After a
\* successful read the promise resolves and the call runs on to its next await.
\* After a failed read reader.result is null, so the onloadend callback throws a
\* TypeError at .split before it reaches resolve: the promise, which has no
\* reject path, stays pending and the call never resumes.
EncodingLoadEnd(i, ok) ==
    /\ i \in DOMAIN calls
    /\ calls[i].pc \in {"readQuestionImage", "readEssayImage"}
    /\ calls' = [calls EXCEPT ![i] =
           IF ~ok THEN [@ EXCEPT !.pc = "readFailed"]
           ELSE IF @.pc = "readQuestionImage" THEN QuestionImageEncoded(@)
           ELSE EssayImageEncoded(@)]
    /\ UNCHANGED <<result, isLoading, error>>
    /\ UNCHANGED uiInputs
    /\ Rerender

\* geminiService.ts:120 and App.tsx:100, 108: the remote call returns response.text
GenerateContentReturns(i, text) ==
    /\ i \in DOMAIN calls
    /\ calls[i].pc = "generateContent"
    /\ calls' = RemoveAt(calls, i)
    /\ result' = text
    /\ isLoading' = FALSE
    /\ UNCHANGED error
    /\ UNCHANGED uiInputs
    /\ Rerender

\* geminiService.ts:121-124 and App.tsx:101-108: the remote call fails
GenerateContentFails(i) ==
    /\ i \in DOMAIN calls
    /\ calls[i].pc = "generateContent"
    /\ calls' = RemoveAt(calls, i)
    /\ error' = AnalysisErrorMsg
    /\ isLoading' = FALSE
    /\ UNCHANGED result
    /\ UNCHANGED uiInputs
    /\ Rerender

----------------------------------------------------------------------------
(* The application: every event of the user and every completion *)

StorableFiles == {f \in Files : FileSize(f) <= MaxImageBytes}

Next ==
    \/ \E t \in TaskTypes : SetTaskType(t)
    \/ \E s \in Topics : SetTopic(s)
    \/ \E m \in EssayInputModes : SetEssayInputMode(m)
    \/ \E w \in TypedTexts : SetUserWriting(w)
    \/ \E f \in Files : handleQuestionImageChange(f)
    \/ \E f \in Files, ok \in BOOLEAN : QuestionPreviewLoadEnd(f, ok)
    \/ removeQuestionImage
    \/ \E f \in Files : handleEssayImageChange(f)
    \/ \E f \in Files, ok \in BOOLEAN : EssayPreviewLoadEnd(f, ok)
    \/ removeEssayImage
    \/ ClickSubmit
    \/ \E i \in 1..MaxCalls, ok \in BOOLEAN : EncodingLoadEnd(i, ok)
    \/ \E i \in 1..MaxCalls, t \in Responses : GenerateContentReturns(i, t)
    \/ \E i \in 1..MaxCalls : GenerateContentFails(i)

Spec == Init /\ [][Next]_vars

----------------------------------------------------------------------------
(* The service on its own: a submission from any idle state of the form, *)
(* with longer essay texts, followed to its end.                          *)

NonEmptyTopics == {t \in Topics : t # ""}

InitService ==
    /\ taskType \in TaskTypes
    /\ topic \in NonEmptyTopics
    /\ questionImageFile \in {NoFile} \cup StorableFiles
    /\ questionImagePreview =
           IF questionImageFile = NoFile THEN NoPreview ELSE DataURL(questionImageFile)
    /\ essayInputMode \in EssayInputModes
    /\ userWriting \in EssayTexts
    /\ essayImageFile \in {NoFile} \cup StorableFiles
    /\ essayImagePreview =
           IF essayImageFile = NoFile THEN NoPreview ELSE DataURL(essayImageFile)
    /\ result = <<>>
    /\ isLoading = FALSE
    /\ error = NoError
    /\ questionReads = {}
    /\ essayReads = {}
    /\ calls = <<>>
    /\ view = AppView(FALSE, <<>>, NoError)

NextService ==
    \/ ClickSubmit
    \/ \E i \in 1..MaxCalls, ok \in BOOLEAN : EncodingLoadEnd(i, ok)
    \/ \E i \in 1..MaxCalls, t \in Responses : GenerateContentReturns(i, t)
    \/ \E i \in 1..MaxCalls : GenerateContentFails(i)

SpecService == InitService /\ [][NextService]_vars

----------------------------------------------------------------------------
(* The renderer on its own: a submission awaiting the remote call, which *)
(* returns any response text.                                            *)

InitRender ==
    /\ taskType = "Task 2"
    /\ topic \in NonEmptyTopics
    /\ questionImageFile = NoFile
    /\ questionImagePreview = NoPreview
    /\ essayInputMode = "text"
    /\ userWriting = <<>>
    /\ essayImageFile = NoFile
    /\ essayImagePreview = NoPreview
    /\ result = <<>>
    /\ isLoading = TRUE
    /\ error = NoError
    /\ questionReads = {}
    /\ essayReads = {}
    /\ calls = <<StartCall(taskType, topic, <<>>, NoFile, NoFile)>>
    /\ view = AppView(TRUE, <<>>, NoError)

NextRender ==
    /\ isLoading
    /\ \E t \in RenderTexts : GenerateContentReturns(1, t)

SpecRender == InitRender /\ [][NextRender]_vars

----------------------------------------------------------------------------
(* Properties *)

Contains(seq, x) == \E k \in DOMAIN seq : seq[k] = x

\* the calls whose request has been sent to the remote model
SentCalls == {k \in DOMAIN calls : calls[k].pc = "generateContent"}

\* the displays of the last render
LoadingShown == view.loading
ErrorShown == view.errorText # NoError
ResultShown == view.sections # <<>>
PlaceholderShown == view.placeholder

DisplaysShown ==
    (IF LoadingShown THEN 1 ELSE 0) + (IF ErrorShown THEN 1 ELSE 0)
    + (IF ResultShown THEN 1 ELSE 0) + (IF PlaceholderShown THEN 1 ELSE 0)

\* C1: in every reachable state of the UI exactly one of the loading indicator,
\* the error message, the rendered result and the placeholder is shown.
C1_ExactlyOneDisplay == DisplaysShown = 1

\* C2: at most one analyzeIeltsWriting call is outstanding at any time, and while
\* one is outstanding the submission is marked in progress (which disables the button).
C2_SingleInFlight == Len(calls) <= 1 /\ (Len(calls) = 1 => isLoading)

\* C2 witness: a request is in flight while the topic alone would allow a submission.
C2_Witness ==
    /\ Len(calls) = 1
    /\ calls[1].pc = "generateContent"
    /\ topic # ""
    /\ isSubmitDisabled

\* C3: once a submission has ended with the failure of the remote call, the error
\* message is set, no result is held or displayed, the in-progress flag is reset and
\* a submission with a non-empty topic is permitted again.
C3_FailureEndsSubmission ==
    error = AnalysisErrorMsg =>
        /\ result = <<>>
        /\ ~ResultShown
        /\ ~isLoading
        /\ calls = <<>>
        /\ (topic # "" => ~isSubmitDisabled)

\* C3 witness: a failed submission has ended and the button is enabled for a retry.
C3_Witness ==
    /\ error = AnalysisErrorMsg
    /\ view.errorText = AnalysisErrorMsg
    /\ topic # ""
    /\ ~isSubmitDisabled

\* C4: a call whose image read has ended in failure does not stay pending (the
\* failure reaches handleSubmit), and no request is sent without its image data.
C4_ReadFailureSurfaced ==
    \A k \in DOMAIN calls :
        /\ calls[k].pc # "readFailed"
        /\ calls[k].pc = "generateContent" =>
               \A n \in DOMAIN calls[k].parts :
                   "inlineData" \in DOMAIN calls[k].parts[n] =>
                       calls[k].parts[n].inlineData.data # <<>>

\* the image part a file is expected to become: its bare base64 bytes and its type
ExpectedImagePart(f) == [inlineData |-> [data |-> FileBase64(f), mimeType |-> FileType(f)]]

\* the essay image is announced under this label
EssayLabelled(text, label) ==
    \E k \in 1..(Len(text) - 1) : text[k] = label /\ text[k + 1] = EssayImageNote

\* C5: in every request sent, the image parts come first, the reference image before
\* the essay image, each labelled with its position, and the one text part is last.
C5_LabelsMatchParts ==
    \A k \in SentCalls :
        LET c == calls[k]
            q == c.questionImageFile
            e == c.essayImageFile
            n == Len(c.parts)
        IN  /\ n = 1 + (IF q # NoFile THEN 1 ELSE 0) + (IF e # NoFile THEN 1 ELSE 0)
            /\ c.parts[n] = TextPart(c.userPromptText)
            /\ \A m \in 1..(n - 1) : DOMAIN c.parts[m] = {"inlineData"}
            /\ Contains(c.userPromptText, QuestionImageNote) <=> q # NoFile
            /\ q # NoFile => c.parts[1] = ExpectedImagePart(q)
            /\ (q # NoFile /\ e # NoFile) =>
                   /\ c.parts[2] = ExpectedImagePart(e)
                   /\ EssayLabelled(c.userPromptText, "[Image 2]")
                   /\ ~EssayLabelled(c.userPromptText, "[Image 1]")
            /\ (q = NoFile /\ e # NoFile) =>
                   /\ c.parts[1] = ExpectedImagePart(e)
                   /\ EssayLabelled(c.userPromptText, "[Image 1]")
                   /\ ~EssayLabelled(c.userPromptText, "[Image 2]")
            /\ e = NoFile =>
                   /\ ~EssayLabelled(c.userPromptText, "[Image 1]")
                   /\ ~EssayLabelled(c.userPromptText, "[Image 2]")

\* C5 witness: a request was sent with a reference image and a different essay image.
C5_Witness ==
    \E k \in SentCalls :
        /\ calls[k].questionImageFile # NoFile
        /\ calls[k].essayImageFile # NoFile
        /\ calls[k].questionImageFile # calls[k].essayImageFile
        /\ Len(calls[k].parts) = 3

\* the text between the first and the last character that is not white space
TrimmedText(w) ==
    LET solid == {k \in DOMAIN w : ~IsWhiteSpace(w[k])}
    IN  IF solid = {} THEN <<>>
        ELSE LET first == CHOOSE k \in solid : \A m \in solid : k <= m
                 last == CHOOSE k \in solid : \A m \in solid : m <= k
             IN  [k \in 1..(last - first + 1) |-> w[first + k - 1]]

\* text holds the essay block: the opening marker, the essay, the closing marker
EssayEmbedded(text, essay) ==
    \E k \in DOMAIN text :
        /\ text[k] = EssayTextOpen
        /\ k + Len(essay) + 1 <= Len(text)
        /\ SubSeq(text, k + 1, k + Len(essay)) = essay
        /\ text[k + Len(essay) + 1] = EssayTextClose

\* C6: in every request sent without an essay image, an empty or white-space-only
\* essay text gives the no-essay line and no essay block, and any other essay text
\* is embedded trimmed between the markers with no no-essay line.
C6_NoEssayStated ==
    \A k \in SentCalls :
        LET c == calls[k]
            t == TrimmedText(c.userWriting)
        IN  c.essayImageFile = NoFile =>
                IF t = <<>>
                THEN /\ Contains(c.userPromptText, NoEssayNote)
                     /\ ~Contains(c.userPromptText, EssayTextOpen)
                     /\ ~Contains(c.userPromptText, EssayTextClose)
                ELSE /\ EssayEmbedded(c.userPromptText, t)
                     /\ ~Contains(c.userPromptText, NoEssayNote)

\* C6 witness: a request was sent whose essay text is white space only.
C6_Witness ==
    \E k \in SentCalls :
        /\ calls[k].essayImageFile = NoFile
        /\ calls[k].userWriting # <<>>
        /\ \A m \in DOMAIN calls[k].userWriting : IsWhiteSpace(calls[k].userWriting[m])

\* C7: every request sent carries a reference image part and its label only if its
\* task type is Task 1.
C7_ReferenceOnlyForTask1 ==
    \A k \in SentCalls :
        (\/ Contains(calls[k].userPromptText, QuestionImageNote)
         \/ Len(calls[k].parts) > 1 /\ calls[k].questionImageFile # NoFile)
            => calls[k].taskType = "Task 1"

\* C8: whenever an error message is set, no result is held.
C8_ErrorMeansNoResult == error # NoError => result = <<>>

\* the lines of the text that are exactly the horizontal-rule marker
RuleLines(text) ==
    LET lines == Split(text, LineBreak)
    IN  {k \in DOMAIN lines : lines[k] = RuleMarker}

\* C9: a rendered response has one section more than it has lines that are exactly
\* `---`; a `---` inside a longer line starts no section.
C9_SectionsAtRuleLines ==
    result # <<>> => Len(view.sections) = 1 + Cardinality(RuleLines(result))

HasPrefix(line, p) == Len(p) <= Len(line) /\ \A k \in DOMAIN p : line[k] = p[k]
After(line, p) == [k \in 1..(Len(line) - Len(p)) |-> line[k + Len(p)]]

RECURSIVE Concat(_)
Concat(pieces) == IF pieces = <<>> THEN <<>> ELSE Head(pieces) \o Concat(Tail(pieces))

\* the token the classification rules give a line, each rule applying only when no
\* earlier one does
ExpectedToken(line) ==
    CASE HasPrefix(line, H3Marker) -> [tag |-> "h3", text |-> After(line, H3Marker)]
      [] ~HasPrefix(line, H3Marker) /\ HasPrefix(line, H4Marker) ->
             [tag |-> "h4", text |-> After(line, H4Marker)]
      [] ~HasPrefix(line, H3Marker) /\ ~HasPrefix(line, H4Marker)
         /\ HasPrefix(line, BoldMarker) ->
             [tag |-> "strong", text |-> Concat(Split(line, BoldMarker))]
      [] ~HasPrefix(line, H3Marker) /\ ~HasPrefix(line, H4Marker)
         /\ ~HasPrefix(line, BoldMarker) /\ HasPrefix(line, ListMarker) ->
             [tag |-> "li", text |-> After(line, ListMarker)]
      [] ~HasPrefix(line, H3Marker) /\ ~HasPrefix(line, H4Marker)
         /\ ~HasPrefix(line, BoldMarker) /\ ~HasPrefix(line, ListMarker)
         /\ (\A k \in DOMAIN line : IsWhiteSpace(line[k])) ->
             [tag |-> "br", text |-> <<>>]
      [] OTHER -> [tag |-> "p", text |-> line]

\* C10: every line of every section is rendered as exactly one token, the one of the
\* first rule that matches it: heading 3, heading 4, emphasis, list item, blank,
\* paragraph.
C10_LineClassification ==
    result # <<>> =>
        LET sections == ResultSections(result)
        IN  /\ Len(view.sections) = Len(sections)
            /\ \A i \in DOMAIN sections :
                   LET lines == SectionLines(sections[i])
                       shown == view.sections[i].children
                   IN  /\ Len(shown) = Len(lines)
                       /\ \A j \in DOMAIN lines : shown[j] = ExpectedToken(lines[j])

\* C10 witness: a five-character response was rendered whose first line is an
\* emphasis line with markers stripped down to one character.
C10_Witness ==
    /\ result # <<>>
    /\ \E i \in DOMAIN view.sections :
           LET shown == view.sections[i].children
           IN  /\ Len(shown) >= 1
               /\ shown[1].tag = "strong"
               /\ Len(shown[1].text) = 1
               /\ Len(result) = 5

----------------------------------------------------------------------------
(* Progress of a submission.  The browser delivers every loadend event of a  *)
(* pending FileReader and the remote call always returns or fails; the user  *)
(* is under no obligation to act.                                            *)

EncodingEnds == \E i \in 1..MaxCalls, ok \in BOOLEAN : EncodingLoadEnd(i, ok)

RemoteCallEnds ==
    \/ \E i \in 1..MaxCalls, t \in Responses : GenerateContentReturns(i, t)
    \/ \E i \in 1..MaxCalls : GenerateContentFails(i)

SpecServiceFair ==
    /\ InitService
    /\ [][NextService]_vars
    /\ WF_vars(EncodingEnds)
    /\ WF_vars(RemoteCallEnds)

\* C11: every submission eventually finishes: once isLoading is true and every image
\* read ends and the remote call returns or fails, isLoading becomes false again with
\* a result or an error recorded (the call has ended: an empty response text is
\* recorded as the empty result).
C11_SubmissionFinishes ==
    isLoading ~> (~isLoading /\ (result # <<>> \/ error # NoError \/ calls = <<>>))

====
